---- MODULE Spec2Model ----
(***************************************************************************)
(* State-machine model of packages/hardhat/contracts/ArrowGameSecure.sol.  *)
(*                                                                         *)
(* One action per external function of the contract.  A call that reverts  *)
(* leaves the contract state as it was and is observable only through the  *)
(* variable `last`, which holds the outcome of the latest call until the   *)
(* sender has read it (Collect); calls are sent one at a time.             *)
(*                                                                         *)
(* Amounts are counted in units of 10^14 wei (0.0001 CELO), so that        *)
(* 0.0005 ether is 5 and 0.01 ether is 100; the arithmetic is the          *)
(* contract's integer arithmetic with truncating division.  uint256 never  *)
(* overflows at these magnitudes; a subtraction below zero reverts with a  *)
(* panic, as checked arithmetic does in Solidity 0.8.                      *)
(*                                                                         *)
(* Every external call is a transaction of its own: the EVM serialises     *)
(* them.  An outbound transfer fails when the balance is short or when     *)
(* the recipient rejects it (`accepts`), and the call then reverts.        *)
(* keccak256 is modelled by an injective pairing where digests are         *)
(* compared and by a fixed mixing function where a number is drawn.        *)
(***************************************************************************)
EXTENDS Integers, FiniteSets, Sequences, TLC

\* ---------------------------------------------------------------- bounds
MaxBalance == 24        \* the environment never pushes the balance above this
MaxTx == 4              \* state-changing transactions per behaviour
MaxPending == 2         \* landing callbacks and executeBet calls of the page not yet finished

\* ------------------------------------------------------ program constants
MAX_PAYOUT_MULTIPLIER == 190
REVEAL_TIMEOUT == 256
MIN_REVEAL_DELAY == 1
InitialMinBet == 5
InitialMaxBet == 50
MaxBetCeiling == 100

\* ------------------------------------------------------------ identities
Owner == "owner"
Callers == {"owner", "alice"}

AddrNum(a) == IF a = "owner" THEN 1 ELSE 2

\* ---------------------------------------------------------------- inputs
Secrets == {1, 2}
BlockHashes == {1, 20, 60}
StakeInputs == {4, 5, 7, 51}
FundInputs == {0, 9}
WithdrawInputs == {0, 5, 25}
LimitInputs == {<<0, 50>>, <<50, 50>>, <<5, 101>>, <<6, 50>>, <<5, 50>>}
\* the heights at which transactions are observed: around a commit and around its timeout
Heights == {1, 2, 3, 257, 258}

\* keccak256(abi.encodePacked(secret, sender)): injective on its inputs
Keccak(secret, sender) == <<secret, sender>>
ZeroHash == <<0, "zero">>
HashInputs == {Keccak(1, c) : c \in Callers}

\* mapping default of pendingBets
NoBet == [amount |-> 0, commitBlock |-> 0, commitHash |-> ZeroHash, resolved |-> FALSE]

VARIABLES
    balance,              \* address(this).balance
    reserveBalance,
    minBet,
    maxBet,
    paused,               \* Pausable._paused
    pendingBets,
    totalGamesPlayed,
    totalPayouts,
    totalWagered,
    playerGamesPlayed,
    playerTotalWon,
    playerTotalWagered,
    blockNumber,          \* block.number
    reservedFor,          \* history: what the commit of the caller's current bet added to reserveBalance
    phase,                \* history: where the caller's latest bet stands in the protocol
    cycles,               \* history: how many of the caller's bets were revealed or refunded
    txCount,              \* history: state-changing transactions so far
    deposited,            \* history: sum of the amounts received by fundHouse and receive
    withdrawn,            \* history: sum of the amounts sent by withdrawHouse and emergencyWithdraw
    draw,                 \* a random number and an amount put through the two payout ladders
    last,                 \* the latest call and its outcome
    page                  \* the game page in the player's browser

config == <<minBet, maxBet>>
stats == <<totalGamesPlayed, totalPayouts, totalWagered,
           playerGamesPlayed, playerTotalWon, playerTotalWagered>>
flows == <<deposited, withdrawn>>
history == <<reservedFor, phase, cycles, txCount, flows>>
betHistory == <<reservedFor, phase, cycles>>
contractState == <<balance, reserveBalance, config, paused, pendingBets, stats, history>>
vars == <<contractState, blockNumber, draw, last, page>>

\* ------------------------------------------------------- pure helpers
\* (x * MAX_PAYOUT_MULTIPLIER) / 100
MaxPayoutOf(amount) == (amount * MAX_PAYOUT_MULTIPLIER) \div 100

\* the if/else ladder of revealBet: result and payout
ResultOf(random) == IF random < 15 THEN 2 ELSE IF random < 50 THEN 1 ELSE 0

\* mutant: a bullseye pays twice the stake
PayoutOfDoubled(random, amount) ==
    IF random < 15 THEN 2 * amount
    ELSE IF random < 50 THEN amount \div 2
    ELSE 0

PayoutOf(random, amount) ==
    IF random < 15 THEN (amount * MAX_PAYOUT_MULTIPLIER) \div 100
    ELSE IF random < 50 THEN amount \div 2
    ELSE 0

\* uint256(keccak256(abi.encodePacked(secret, blockHash, msg.sender, commitBlock))) % 100
RevealRandom(secret, blockHash, sender, commitBlock) ==
    (blockHash + 7 * secret + 13 * AddrNum(sender) + 31 * commitBlock) % 100

\* uint256(keccak256(abi.encodePacked(prevrandao, timestamp, msg.sender, totalGamesPlayed, blockhash))) % 100
QuickRandom(entropy, sender, games) ==
    (entropy + 13 * AddrNum(sender) + 37 * games) % 100

\* mutant: the resolved flag is not read, a used slot stays taken
HasOpenBetAmountOnly(a) == pendingBets[a].amount > 0

\* mutant: the resolved flag is read without its negation
HasOpenBetFlagInverted(a) == pendingBets[a].amount > 0 /\ pendingBets[a].resolved

\* pendingBets[a].amount > 0 && !pendingBets[a].resolved
HasOpenBet(a) == pendingBets[a].amount > 0 /\ ~pendingBets[a].resolved

\* mutant: the resolved flag is not consulted
NoPendingAmountOnly(a) == pendingBets[a].amount = 0

\* bet.amount == 0 || bet.resolved
NoPending(a) == pendingBets[a].amount = 0 \/ pendingBets[a].resolved

\* mutant: the pause modifier is missing
BettingPausedNever == FALSE

\* modifier whenNotPaused of commitBet, revealBet and quickBet
BettingPaused == paused

\* mutant: the per-player counters are written under a key nobody reads
StatsHolderNobody(sender) == "nobody"

\* mutant: the statistics are credited to the owner
StatsHolderOwner(sender) == Owner

\* playerGamesPlayed[msg.sender], playerTotalWagered[msg.sender], playerTotalWon[msg.sender]
StatsHolder(sender) == sender

\* ------------------------------------------------------- call outcomes
\* the recipient of the transfer did not look at the contract
NothingSeen == [resolved |-> FALSE, reserveBalance |-> 0, games |-> 0]

Outcome(op, err) ==
    [op |-> op, err |-> err,
     result |-> -1, payout |-> 0, released |-> 0, sent |-> 0,
     detail |-> <<0, 0>>,
     reentry |-> "none", seen |-> NothingSeen]

\* no receipt is waiting: the next transaction can be sent
Idle == Outcome("none", "ok")
Ready == last = Idle

\* a transaction that changes the contract is counted against the budget
Counted == txCount < MaxTx /\ txCount' = txCount + 1

\* a reverted call: nothing but the observation changes
\* the history of what came in through fundHouse and receive
Deposited(value) == deposited' = deposited + value /\ UNCHANGED withdrawn

\* the history of what went out through withdrawHouse and emergencyWithdraw
Withdrawn(amount) == withdrawn' = withdrawn + amount /\ UNCHANGED deposited

Reverts(op, err) ==
    /\ last' = Outcome(op, err)
    /\ UNCHANGED contractState

\* a revert whose error carries two numbers
RevertsWith(op, err, detail) ==
    /\ last' = [Outcome(op, err) EXCEPT !.detail = detail]
    /\ UNCHANGED contractState

\* no number has been put through the ladders
NoDraw == [random |-> 0, amount |-> 0, resolved |-> FALSE, reveal |-> <<-1, 0>>, quick |-> <<-1, 0>>]

\* the contract right after its constructor
Deployed ==
    /\ balance = 0
    /\ reserveBalance = 0
    /\ minBet = InitialMinBet
    /\ maxBet = InitialMaxBet
    /\ paused = FALSE
    /\ pendingBets = [a \in Callers |-> NoBet]
    /\ totalGamesPlayed = 0
    /\ totalPayouts = 0
    /\ totalWagered = 0
    /\ playerGamesPlayed = [a \in Callers |-> 0]
    /\ playerTotalWon = [a \in Callers |-> 0]
    /\ playerTotalWagered = [a \in Callers |-> 0]
    /\ blockNumber = 1
    /\ reservedFor = [a \in Callers |-> 0]
    /\ phase = [a \in Callers |-> "NoBet"]
    /\ cycles = [a \in Callers |-> 0]
    /\ txCount = 0
    /\ deposited = 0
    /\ withdrawn = 0
    /\ last = Idle

\* the React state the handlers of the page read and write
FreshView == [gameState |-> "idle", isHolding |-> FALSE, txStatus |-> "idle"]

\* GamePage after its first render. shown holds the values of the latest render, which
\* the handlers of that render close over; state holds React's state with the updates
\* queued by the setters; hits and misses count the landing callbacks that are scheduled;
\* switching, signing, confirming and demo count the executeBet calls suspended at the
\* await of ensureCorrectChain, of writeContractAsync, of waitForTransactionReceipt and
\* at the demo timeout; calls and quickBets are history: the executeBet calls and the
\* quickBet transactions handed to the wallet since the latest accepted handleStart.
PageLoaded(deployed) ==
    [deployed |-> deployed, shown |-> FreshView, state |-> FreshView,
     hits |-> 0, misses |-> 0,
     switching |-> 0, signing |-> 0, confirming |-> 0, demo |-> 0,
     calls |-> 0, quickBets |-> 0]

Init ==
    /\ Deployed
    /\ draw = NoDraw
    /\ page = PageLoaded(TRUE)

\* ------------------------------------------------------------ commitBet
\* mutant: the stake is subtracted from a balance that does not hold it yet
CommitAvailableStakeTwice(value) == balance - value

\* address(this).balance - msg.value, the balance already holding the stake
CommitAvailable(value) == (balance + value) - value

\* mutant: the call returns instead of reverting, and the stake stays in the contract
CommitRejectedStakeKept(value, err) ==
    /\ last' = Outcome("commitBet", err)
    /\ balance' = balance + value
    /\ UNCHANGED <<reserveBalance, config, paused, pendingBets, stats, history>>

\* revert BetTooSmall / BetTooLarge / PendingBetExists:
\* the transaction is undone and msg.value stays with the caller
CommitRejected(value, err) == Reverts("commitBet", err)

\* revert InsufficientHouseBalance(availableForPayout, maxPayout)
CommitShort(available, required) ==
    RevertsWith("commitBet", "InsufficientHouseBalance", <<available, required>>)

\* mutant: the lower limit is not checked
CommitTooSmallNever(value) == FALSE

\* msg.value < minBet
CommitTooSmall(value) == value < minBet

commitBet(sender, value, commitHash) ==
    /\ balance + value <= MaxBalance
    /\ Ready
    /\ UNCHANGED <<blockNumber, draw, page>>
    /\ IF BettingPaused THEN Reverts("commitBet", "EnforcedPause")
       ELSE IF CommitTooSmall(value) THEN CommitRejected(value, "BetTooSmall")
       ELSE IF value > maxBet THEN CommitRejected(value, "BetTooLarge")
       ELSE IF HasOpenBet(sender)
            THEN CommitRejected(value, "PendingBetExists")
       ELSE IF CommitAvailable(value) < MaxPayoutOf(value)
            THEN CommitShort(CommitAvailable(value), MaxPayoutOf(value))
       ELSE /\ balance' = balance + value
            /\ pendingBets' = [pendingBets EXCEPT ![sender] =
                   [amount |-> value, commitBlock |-> blockNumber,
                    commitHash |-> commitHash, resolved |-> FALSE]]
            /\ reserveBalance' = reserveBalance + MaxPayoutOf(value)
            /\ reservedFor' = [reservedFor EXCEPT ![sender] = MaxPayoutOf(value)]
            /\ phase' = [phase EXCEPT ![sender] = "Committed"]
            /\ UNCHANGED <<cycles, flows>>
            /\ Counted
            /\ last' = Outcome("commitBet", "ok")
            /\ UNCHANGED <<config, paused, stats>>

\* ------------------------------------------------------------ revealBet
\* mutant: the stake is released instead of the worst-case payout
RevealReleaseStake(betAmount) == betAmount

\* (betAmount * MAX_PAYOUT_MULTIPLIER) / 100
RevealRelease(betAmount) == (betAmount * MAX_PAYOUT_MULTIPLIER) \div 100

\* mutant: the reported height is one too low
RevealEarliestOneLess(commitBlock) == commitBlock + MIN_REVEAL_DELAY

\* the height RevealTooEarly reports as required: bet.commitBlock + MIN_REVEAL_DELAY + 1
RevealEarliest(commitBlock) == commitBlock + MIN_REVEAL_DELAY + 1

\* the deadline RevealTooLate reports: bet.commitBlock + REVEAL_TIMEOUT
RevealLatest(commitBlock) == commitBlock + REVEAL_TIMEOUT

\* mutant: the minimum delay is left out
RevealOpensAfterNoDelay(commitBlock) == commitBlock

\* bet.commitBlock + MIN_REVEAL_DELAY
RevealOpensAfter(commitBlock) == commitBlock + MIN_REVEAL_DELAY

\* bet.commitBlock + REVEAL_TIMEOUT
RevealDeadline(commitBlock) == commitBlock + REVEAL_TIMEOUT

\* mutant: the digest is not bound to the caller
ExpectedHashOfOwner(secret, sender) == Keccak(secret, Owner)

\* keccak256(abi.encodePacked(secret, msg.sender))
ExpectedHash(secret, sender) == Keccak(secret, sender)

\* mutant: the hash of the commit block itself is used
EntropyBlockOfCommit(commitBlock) == commitBlock

\* the block whose hash seeds the draw: bet.commitBlock + 1
EntropyBlock(commitBlock) == commitBlock + 1

\* blockhash(n) when the chain gives blockHash to block n: zero unless n is one of the
\* 256 most recent blocks
BlockHashAt(n, blockHash) ==
    IF n < blockNumber /\ n >= blockNumber - 256 THEN blockHash ELSE 0

\* mutant: the result of the call is not required
TransferFailsUnchecked(amount, accepts) == amount > balance

\* call{value: amount}("") returns false: the contract holds less than amount, or the
\* recipient rejects the transfer
TransferFails(amount, accepts) == amount > balance \/ ~accepts

\* mutant: the reveal closes every open slot
RevealSettledClosesAll(sender, betAmount, maxPayout, payout) ==
    /\ pendingBets' = [a \in Callers |-> [pendingBets[a] EXCEPT !.resolved = TRUE]]
    /\ reserveBalance' = reserveBalance - maxPayout
    /\ totalGamesPlayed' = totalGamesPlayed + 1
    /\ totalWagered' = totalWagered + betAmount
    /\ playerGamesPlayed' = [playerGamesPlayed EXCEPT ![sender] = @ + 1]
    /\ playerTotalWagered' = [playerTotalWagered EXCEPT ![sender] = @ + betAmount]
    /\ totalPayouts' = totalPayouts + payout
    /\ playerTotalWon' = [playerTotalWon EXCEPT ![sender] = @ + payout]
    /\ balance' = balance - payout
    /\ phase' = [phase EXCEPT ![sender] = "Resolved"]
    /\ cycles' = [cycles EXCEPT ![sender] = @ + 1]
    /\ Counted
    /\ UNCHANGED <<config, paused, reservedFor, flows>>

\* the writes of a revealBet that runs to its end
RevealSettled(sender, betAmount, maxPayout, payout) ==
    /\ pendingBets' = [pendingBets EXCEPT ![sender].resolved = TRUE]
    /\ reserveBalance' = reserveBalance - maxPayout
    /\ totalGamesPlayed' = totalGamesPlayed + 1
    /\ totalWagered' = totalWagered + betAmount
    /\ playerGamesPlayed' = [playerGamesPlayed EXCEPT ![StatsHolder(sender)] = @ + 1]
    /\ playerTotalWagered' = [playerTotalWagered EXCEPT ![StatsHolder(sender)] = @ + betAmount]
    /\ totalPayouts' = totalPayouts + payout
    /\ playerTotalWon' = [playerTotalWon EXCEPT ![StatsHolder(sender)] = @ + payout]
    /\ balance' = balance - payout
    /\ phase' = [phase EXCEPT ![sender] = "Resolved"]
    /\ cycles' = [cycles EXCEPT ![sender] = @ + 1]
    /\ Counted
    /\ UNCHANGED <<config, paused, reservedFor, flows>>

revealBet(sender, secret, blockHash, accepts) ==
    LET bet == pendingBets[sender]
        betAmount == bet.amount
        maxPayout == RevealRelease(betAmount)
        random == RevealRandom(secret, BlockHashAt(EntropyBlock(bet.commitBlock), blockHash),
                               sender, bet.commitBlock)
        result == ResultOf(random)
        payout == PayoutOf(random, betAmount)
    IN
    /\ Ready
    /\ UNCHANGED <<blockNumber, draw, page>>
    /\ IF BettingPaused THEN Reverts("revealBet", "EnforcedPause")
       ELSE IF NoPending(sender)
            THEN Reverts("revealBet", "NoPendingBet")
       ELSE IF blockNumber <= RevealOpensAfter(bet.commitBlock)
            THEN RevertsWith("revealBet", "RevealTooEarly",
                             <<blockNumber, RevealEarliest(bet.commitBlock)>>)
       ELSE IF blockNumber > RevealDeadline(bet.commitBlock)
            THEN RevertsWith("revealBet", "RevealTooLate",
                             <<blockNumber, RevealLatest(bet.commitBlock)>>)
       ELSE IF ExpectedHash(secret, sender) # bet.commitHash
            THEN Reverts("revealBet", "InvalidReveal")
       ELSE IF reserveBalance < maxPayout
            THEN Reverts("revealBet", "Panic")
       ELSE IF payout > 0 /\ TransferFails(payout, accepts)
            THEN Reverts("revealBet", "Payout failed")
       ELSE /\ RevealSettled(sender, betAmount, maxPayout, payout)
            /\ last' = [Outcome("revealBet", "ok") EXCEPT
                          !.result = result, !.payout = payout,
                          !.released = maxPayout, !.sent = payout]

\* ----------------------------------------------------- refundExpiredBet
\* mutant: the stake is released instead of the worst-case payout
RefundReleaseStake(refundAmount) == refundAmount

\* (refundAmount * MAX_PAYOUT_MULTIPLIER) / 100
RefundRelease(refundAmount) == (refundAmount * MAX_PAYOUT_MULTIPLIER) \div 100

\* the height refundExpiredBet reports as required: bet.commitBlock + REVEAL_TIMEOUT + 1
RefundEarliest(commitBlock) == commitBlock + REVEAL_TIMEOUT + 1

\* mutant: the refund opens with the reveal window
RefundOpensAfterDelay(commitBlock) == commitBlock + MIN_REVEAL_DELAY

\* bet.commitBlock + REVEAL_TIMEOUT
RefundOpensAfter(commitBlock) == commitBlock + REVEAL_TIMEOUT

\* mutant: the refund sends the released amount instead of the stake
RefundSettledPaysLiability(sender, refundAmount, maxPayout) ==
    /\ pendingBets' = [pendingBets EXCEPT ![sender].resolved = TRUE]
    /\ reserveBalance' = reserveBalance - maxPayout
    /\ balance' = balance - maxPayout
    /\ phase' = [phase EXCEPT ![sender] = "Refunded"]
    /\ cycles' = [cycles EXCEPT ![sender] = @ + 1]
    /\ Counted
    /\ UNCHANGED <<config, paused, stats, reservedFor, flows>>

\* the writes of a refundExpiredBet that runs to its end
RefundSettled(sender, refundAmount, maxPayout) ==
    /\ pendingBets' = [pendingBets EXCEPT ![sender].resolved = TRUE]
    /\ reserveBalance' = reserveBalance - maxPayout
    /\ balance' = balance - refundAmount
    /\ phase' = [phase EXCEPT ![sender] = "Refunded"]
    /\ cycles' = [cycles EXCEPT ![sender] = @ + 1]
    /\ Counted
    /\ UNCHANGED <<config, paused, stats, reservedFor, flows>>

refundExpiredBet(sender, accepts) ==
    LET bet == pendingBets[sender]
        refundAmount == bet.amount
        maxPayout == RefundRelease(refundAmount)
    IN
    /\ Ready
    /\ UNCHANGED <<blockNumber, draw, page>>
    /\ IF NoPending(sender)
            THEN Reverts("refundExpiredBet", "NoPendingBet")
       ELSE IF blockNumber <= RefundOpensAfter(bet.commitBlock)
            THEN RevertsWith("refundExpiredBet", "RevealTooEarly",
                             <<blockNumber, RefundEarliest(bet.commitBlock)>>)
       ELSE IF reserveBalance < maxPayout
            THEN Reverts("refundExpiredBet", "Panic")
       ELSE IF TransferFails(refundAmount, accepts)
            THEN Reverts("refundExpiredBet", "Refund failed")
       ELSE /\ RefundSettled(sender, refundAmount, maxPayout)
            /\ last' = [Outcome("refundExpiredBet", "ok") EXCEPT
                          !.released = maxPayout, !.sent = refundAmount]

\* -------------------------------------------------------------- quickBet
\* mutant: the stake is counted as house money
QuickAvailableWithStake(value) == balance + value

\* mutant: the reserve is subtracted on this path only
QuickAvailableLessReserve(value) == balance - reserveBalance

\* address(this).balance - msg.value, the balance already holding the stake
QuickAvailable(value) == (balance + value) - value

\* mutant: the bullseye threshold is inclusive
QuickResultOfInclusive(random) == IF random <= 15 THEN 2 ELSE IF random < 50 THEN 1 ELSE 0

\* the if/else ladder of quickBet: result
QuickResultOf(random) == IF random < 15 THEN 2 ELSE IF random < 50 THEN 1 ELSE 0

\* the if/else ladder of quickBet: payout
QuickPayoutOf(random, value) ==
    IF random < 15 THEN (value * MAX_PAYOUT_MULTIPLIER) \div 100
    ELSE IF random < 50 THEN value \div 2
    ELSE 0

\* mutant: the quick bet closes the caller's slot
QuickSettledClosesSlot(sender, value, payout) ==
    /\ totalGamesPlayed' = totalGamesPlayed + 1
    /\ totalWagered' = totalWagered + value
    /\ playerGamesPlayed' = [playerGamesPlayed EXCEPT ![sender] = @ + 1]
    /\ playerTotalWagered' = [playerTotalWagered EXCEPT ![sender] = @ + value]
    /\ totalPayouts' = totalPayouts + payout
    /\ playerTotalWon' = [playerTotalWon EXCEPT ![sender] = @ + payout]
    /\ balance' = (balance + value) - payout
    /\ pendingBets' = [pendingBets EXCEPT ![sender].resolved = TRUE]
    /\ Counted
    /\ UNCHANGED <<reserveBalance, config, paused, betHistory, flows>>

\* the writes of a quickBet that is played
QuickSettled(sender, value, payout) ==
    /\ totalGamesPlayed' = totalGamesPlayed + 1
    /\ totalWagered' = totalWagered + value
    /\ playerGamesPlayed' = [playerGamesPlayed EXCEPT ![StatsHolder(sender)] = @ + 1]
    /\ playerTotalWagered' = [playerTotalWagered EXCEPT ![StatsHolder(sender)] = @ + value]
    /\ totalPayouts' = totalPayouts + payout
    /\ playerTotalWon' = [playerTotalWon EXCEPT ![StatsHolder(sender)] = @ + payout]
    /\ balance' = (balance + value) - payout
    /\ Counted
    /\ UNCHANGED <<reserveBalance, config, paused, pendingBets, betHistory, flows>>

quickBet(sender, value, entropy, accepts) ==
    LET maxPayout == MaxPayoutOf(value)
        availableForPayout == QuickAvailable(value)
        random == QuickRandom(entropy, sender, totalGamesPlayed)
        result == QuickResultOf(random)
        payout == QuickPayoutOf(random, value)
    IN
    /\ balance + value <= MaxBalance
    /\ Ready
    /\ UNCHANGED <<blockNumber, draw, page>>
    /\ IF BettingPaused THEN Reverts("quickBet", "EnforcedPause")
       ELSE IF value < minBet THEN Reverts("quickBet", "BetTooSmall")
       ELSE IF value > maxBet THEN Reverts("quickBet", "BetTooLarge")
       ELSE IF availableForPayout < maxPayout
            THEN IF ~accepts
                 THEN Reverts("quickBet", "Refund failed")
                 ELSE /\ last' = [Outcome("quickBet", "refunded") EXCEPT
                                    !.sent = value]
                      /\ UNCHANGED contractState
       ELSE IF payout > 0 /\ ~accepts
            THEN Reverts("quickBet", "Payout failed")
       ELSE /\ QuickSettled(sender, value, payout)
            /\ last' = [Outcome("quickBet", "ok") EXCEPT
                          !.result = result, !.payout = payout, !.sent = payout]

\* ----------------------------------------------------- house management
\* mutant: the amount is not checked
FundRejectedNever(value) == FALSE

\* require(msg.value > 0, "Must send CELO")
FundRejected(value) == ~(value > 0)

fundHouse(sender, value) ==
    /\ balance + value <= MaxBalance
    /\ Ready
    /\ UNCHANGED <<blockNumber, draw, page>>
    /\ IF FundRejected(value) THEN Reverts("fundHouse", "Must send CELO")
       ELSE /\ balance' = balance + value
            /\ Counted
            /\ last' = Outcome("fundHouse", "ok")
            /\ Deposited(value)
            /\ UNCHANGED <<reserveBalance, config, paused, pendingBets, stats, betHistory>>

receive(sender, value) ==
    /\ balance + value <= MaxBalance
    /\ Ready
    /\ UNCHANGED <<blockNumber, draw, page>>
    /\ balance' = balance + value
    /\ Counted
    /\ last' = Outcome("receive", "ok")
    /\ Deposited(value)
    /\ UNCHANGED <<reserveBalance, config, paused, pendingBets, stats, betHistory>>

\* mutant: the modifier is missing
OnlyOwnerFailsNever(sender) == FALSE

\* modifier onlyOwner: OwnableUnauthorizedAccount unless msg.sender is owner()
OnlyOwnerFails(sender) == sender # Owner

\* mutant: the reserve is not subtracted
WithdrawLimitWholeBalance == balance

\* address(this).balance - reserveBalance
WithdrawLimit == balance - reserveBalance

withdrawHouse(sender, amount, accepts) ==
    /\ Ready
    /\ UNCHANGED <<blockNumber, draw, page>>
    /\ IF OnlyOwnerFails(sender)
            THEN Reverts("withdrawHouse", "OwnableUnauthorizedAccount")
       ELSE IF balance < reserveBalance
            THEN Reverts("withdrawHouse", "Panic")
       ELSE IF ~(amount <= WithdrawLimit)
            THEN Reverts("withdrawHouse", "Cannot withdraw reserved funds")
       ELSE IF ~accepts
            THEN Reverts("withdrawHouse", "Withdrawal failed")
       ELSE /\ balance' = balance - amount
            /\ Counted
            /\ last' = [Outcome("withdrawHouse", "ok") EXCEPT !.sent = amount]
            /\ Withdrawn(amount)
            /\ UNCHANGED <<reserveBalance, config, paused, pendingBets, stats, betHistory>>

pause(sender) ==
    /\ Ready
    /\ UNCHANGED <<blockNumber, draw, page>>
    /\ IF OnlyOwnerFails(sender) THEN Reverts("pause", "OwnableUnauthorizedAccount")
       ELSE IF paused THEN Reverts("pause", "EnforcedPause")
       ELSE /\ paused' = TRUE
            /\ Counted
            /\ last' = Outcome("pause", "ok")
            /\ UNCHANGED <<balance, reserveBalance, config, pendingBets, stats, betHistory, flows>>

unpause(sender) ==
    /\ Ready
    /\ UNCHANGED <<blockNumber, draw, page>>
    /\ IF OnlyOwnerFails(sender) THEN Reverts("unpause", "OwnableUnauthorizedAccount")
       ELSE IF ~paused THEN Reverts("unpause", "ExpectedPause")
       ELSE /\ paused' = FALSE
            /\ Counted
            /\ last' = Outcome("unpause", "ok")
            /\ UNCHANGED <<balance, reserveBalance, config, pendingBets, stats, betHistory, flows>>

\* uint256 balance = address(this).balance
EmergencyAmount == balance

emergencyWithdraw(sender, accepts) ==
    /\ Ready
    /\ UNCHANGED <<blockNumber, draw, page>>
    /\ IF OnlyOwnerFails(sender)
            THEN Reverts("emergencyWithdraw", "OwnableUnauthorizedAccount")
       ELSE IF ~paused THEN Reverts("emergencyWithdraw", "ExpectedPause")
       ELSE IF ~accepts
            THEN Reverts("emergencyWithdraw", "Emergency withdrawal failed")
       ELSE /\ balance' = balance - EmergencyAmount
            /\ Counted
            /\ last' = [Outcome("emergencyWithdraw", "ok") EXCEPT
                          !.sent = EmergencyAmount]
            /\ Withdrawn(EmergencyAmount)
            /\ UNCHANGED <<reserveBalance, config, paused, pendingBets, stats, betHistory>>

\* mutant: an empty range passes
InvalidBetRangeEqualAllowed(newMin, newMax) == ~(newMin <= newMax)

\* require(_minBet < _maxBet, "Invalid bet range")
InvalidBetRange(newMin, newMax) == ~(newMin < newMax)

updateBetLimits(sender, newMin, newMax) ==
    /\ Ready
    /\ UNCHANGED <<blockNumber, draw, page>>
    /\ IF OnlyOwnerFails(sender)
            THEN Reverts("updateBetLimits", "OwnableUnauthorizedAccount")
       ELSE IF ~(newMin > 0)
            THEN Reverts("updateBetLimits", "Min bet must be positive")
       ELSE IF InvalidBetRange(newMin, newMax)
            THEN Reverts("updateBetLimits", "Invalid bet range")
       ELSE IF ~(newMax <= MaxBetCeiling)
            THEN Reverts("updateBetLimits", "Max bet too high")
       ELSE /\ minBet' = newMin
            /\ maxBet' = newMax
            /\ Counted
            /\ last' = Outcome("updateBetLimits", "ok")
            /\ UNCHANGED <<balance, reserveBalance, paused, pendingBets, stats, betHistory, flows>>

\* ------------------------------------------------------------ view functions
\* mutant: canRefund is true one block early
getPendingBetRefundInclusive(player) ==
    LET bet == pendingBets[player] IN
    [amount |-> bet.amount,
     commitBlock |-> bet.commitBlock,
     canReveal |-> /\ blockNumber > bet.commitBlock + MIN_REVEAL_DELAY
                   /\ blockNumber <= bet.commitBlock + REVEAL_TIMEOUT,
     canRefund |-> blockNumber >= bet.commitBlock + REVEAL_TIMEOUT,
     resolved |-> bet.resolved]

getPendingBet(player) ==
    LET bet == pendingBets[player] IN
    [amount |-> bet.amount,
     commitBlock |-> bet.commitBlock,
     canReveal |-> /\ blockNumber > bet.commitBlock + MIN_REVEAL_DELAY
                   /\ blockNumber <= bet.commitBlock + REVEAL_TIMEOUT,
     canRefund |-> blockNumber > bet.commitBlock + REVEAL_TIMEOUT,
     resolved |-> bet.resolved]

getHouseBalance ==
    [total |-> balance,
     available |-> IF balance > reserveBalance THEN balance - reserveBalance ELSE 0,
     reserved |-> reserveBalance]

\* the chain grows between transactions
Mine(height) ==
    /\ Ready
    /\ height > blockNumber
    /\ blockNumber' = height
    /\ UNCHANGED <<contractState, draw, last, page>>

\* the sender has read the receipt of the latest transaction
Collect ==
    /\ ~Ready
    /\ last' = Idle
    /\ UNCHANGED <<contractState, blockNumber, draw, page>>

Next ==
    \/ \E a \in Callers, v \in StakeInputs, h \in HashInputs : commitBet(a, v, h)
    \/ \E a \in Callers, s \in Secrets, bh \in BlockHashes, ok \in BOOLEAN : revealBet(a, s, bh, ok)
    \/ \E a \in Callers, ok \in BOOLEAN : refundExpiredBet(a, ok)
    \/ \E a \in Callers, v \in StakeInputs, e \in BlockHashes, ok \in BOOLEAN : quickBet(a, v, e, ok)
    \/ \E a \in Callers, v \in FundInputs : fundHouse(a, v)
    \/ \E a \in Callers, v \in FundInputs : receive(a, v)
    \/ \E a \in Callers, amt \in WithdrawInputs, ok \in BOOLEAN : withdrawHouse(a, amt, ok)
    \/ \E a \in Callers : pause(a)
    \/ \E a \in Callers : unpause(a)
    \/ \E a \in Callers, ok \in BOOLEAN : emergencyWithdraw(a, ok)
    \/ \E a \in Callers, lim \in LimitInputs : updateBetLimits(a, lim[1], lim[2])
    \/ \E h \in Heights : Mine(h)
    \/ Collect

Spec == Init /\ [][Next]_vars

\* ------------------------------------------------------- the payout ladders alone
\* uint256 random = uint256(keccak256(...)) % 100, and every amount updateBetLimits can admit
DrawInputs == [random : 0..99, amount : 1..MaxBetCeiling, resolved : {FALSE},
               reveal : {<<-1, 0>>}, quick : {<<-1, 0>>}]

ResolverInit ==
    /\ Deployed
    /\ draw \in DrawInputs
    /\ page = PageLoaded(TRUE)

\* the ladder of revealBet and the ladder of quickBet applied to the same draw
Resolve ==
    /\ ~draw.resolved
    /\ draw' = [draw EXCEPT !.resolved = TRUE,
                            !.reveal = <<ResultOf(draw.random), PayoutOf(draw.random, draw.amount)>>,
                            !.quick = <<QuickResultOf(draw.random), QuickPayoutOf(draw.random, draw.amount)>>]
    /\ UNCHANGED <<contractState, blockNumber, last, page>>

ResolverNext == Resolve

ResolverSpec == ResolverInit /\ [][ResolverNext]_vars

\* ------------------------------------------- the transfer seen from the recipient
\* The payout and the refund are sent with call{value: ...}(""), which runs the code of
\* the recipient; that code can call back into the contract before it returns.

\* mutant: the resolved flag is written after the transfer
RevealAtTransferUnmarked(sender, maxPayout) ==
    [pendingBets |-> pendingBets,
     reserveBalance |-> reserveBalance - maxPayout,
     games |-> playerGamesPlayed[sender] + 1]

\* storage when revealBet makes its transfer: bet.resolved, reserveBalance and the
\* statistics are written first
RevealAtTransfer(sender, maxPayout) ==
    [pendingBets |-> [pendingBets EXCEPT ![sender].resolved = TRUE],
     reserveBalance |-> reserveBalance - maxPayout,
     games |-> playerGamesPlayed[sender] + 1]

\* storage when refundExpiredBet makes its transfer: bet.resolved and reserveBalance
\* are written first
RefundAtTransfer(sender, maxPayout) ==
    [pendingBets |-> [pendingBets EXCEPT ![sender].resolved = TRUE],
     reserveBalance |-> reserveBalance - maxPayout,
     games |-> playerGamesPlayed[sender]]

\* modifier nonReentrant: the guard is set for the whole body, the transfer included
ReentrancyEntered == TRUE

\* what a call of inner by the recipient returns during the transfer; "admitted" is a
\* call that gets past the guard and the pending-bet check
Reentered(inner, sender, storage) ==
    IF ReentrancyEntered THEN "ReentrancyGuardReentrantCall"
    ELSE IF inner = "revealBet" /\ BettingPaused THEN "EnforcedPause"
    ELSE IF storage.pendingBets[sender].amount = 0 \/ storage.pendingBets[sender].resolved
         THEN "NoPendingBet"
    ELSE "admitted"

WhatRecipientSees(sender, storage) ==
    [resolved |-> storage.pendingBets[sender].resolved,
     reserveBalance |-> storage.reserveBalance,
     games |-> storage.games]

ReentrantCalls == {"revealBet", "refundExpiredBet"}

\* a revealBet that pays, to a recipient that calls inner during the transfer, ignores
\* what that call returns and accepts the payout
revealBetReentered(sender, secret, blockHash, inner) ==
    LET bet == pendingBets[sender]
        betAmount == bet.amount
        maxPayout == RevealRelease(betAmount)
        random == RevealRandom(secret, BlockHashAt(EntropyBlock(bet.commitBlock), blockHash),
                               sender, bet.commitBlock)
        result == ResultOf(random)
        payout == PayoutOf(random, betAmount)
        storage == RevealAtTransfer(sender, maxPayout)
    IN
    /\ Ready
    /\ UNCHANGED <<blockNumber, draw, page>>
    /\ ~BettingPaused
    /\ ~NoPending(sender)
    /\ blockNumber > RevealOpensAfter(bet.commitBlock)
    /\ blockNumber <= RevealDeadline(bet.commitBlock)
    /\ ExpectedHash(secret, sender) = bet.commitHash
    /\ reserveBalance >= maxPayout
    /\ payout > 0 /\ payout <= balance
    /\ RevealSettled(sender, betAmount, maxPayout, payout)
    /\ last' = [Outcome("revealBet", "ok") EXCEPT
                  !.result = result, !.payout = payout,
                  !.released = maxPayout, !.sent = payout,
                  !.reentry = Reentered(inner, sender, storage),
                  !.seen = WhatRecipientSees(sender, storage)]

\* a refundExpiredBet to a recipient that calls inner during the transfer, ignores what
\* that call returns and accepts the refund
refundExpiredBetReentered(sender, inner) ==
    LET bet == pendingBets[sender]
        refundAmount == bet.amount
        maxPayout == RefundRelease(refundAmount)
        storage == RefundAtTransfer(sender, maxPayout)
    IN
    /\ Ready
    /\ UNCHANGED <<blockNumber, draw, page>>
    /\ ~NoPending(sender)
    /\ blockNumber > RefundOpensAfter(bet.commitBlock)
    /\ reserveBalance >= maxPayout
    /\ refundAmount <= balance
    /\ RefundSettled(sender, refundAmount, maxPayout)
    /\ last' = [Outcome("refundExpiredBet", "ok") EXCEPT
                  !.released = maxPayout, !.sent = refundAmount,
                  !.reentry = Reentered(inner, sender, storage),
                  !.seen = WhatRecipientSees(sender, storage)]

ReentryNext ==
    \/ Next
    \/ \E a \in Callers, s \in Secrets, bh \in BlockHashes, inner \in ReentrantCalls :
          revealBetReentered(a, s, bh, inner)
    \/ \E a \in Callers, inner \in ReentrantCalls : refundExpiredBetReentered(a, inner)

ReentrySpec == Init /\ [][ReentryNext]_vars

\* ------------------------------------------------------------------ the game page
\* GamePage is a React function component: a handler reads the gameState, isHolding and
\* txStatus of the render that created it, and a setter queues an update that the
\* handlers see only after the next render.

\* the landing callbacks and executeBet calls that have not finished
PendingWork ==
    page.hits + page.misses + page.switching + page.signing + page.confirming + page.demo

\* the release events looked at: at most MaxPending per draw, and at most MaxPending
\* callbacks and calls unfinished at any time
ReleaseBudget ==
    /\ PendingWork < MaxPending
    /\ page.calls + page.hits + page.misses < MaxPending

PageStep == UNCHANGED <<contractState, blockNumber, draw, last>>

\* React renders the component again with the queued updates
Render ==
    /\ page.shown # page.state
    /\ page' = [page EXCEPT !.shown = page.state]
    /\ PageStep

\* mouse-down or touch-start on the start area, which exists while gameState is "idle"
handleStart ==
    /\ page.shown.gameState = "idle"
    /\ ~(page.shown.gameState # "idle" \/ page.shown.txStatus # "idle")
    /\ page' = [page EXCEPT !.state.isHolding = TRUE,
                            !.state.gameState = "drawing",
                            !.calls = 0,
                            !.quickBets = 0]
    /\ PageStep

\* animateArrow: the arrow flies and the landing callback is scheduled
animateArrow(reachesTarget) ==
    [page EXCEPT !.state.isHolding = FALSE,
                 !.state.gameState = "flying",
                 !.hits = IF reachesTarget THEN @ + 1 ELSE @,
                 !.misses = IF reachesTarget THEN @ ELSE @ + 1]

\* mouse-up, mouse-leave or touch-end on the release area, which exists while gameState
\* is "drawing"; calculateShotOutcome decides whether the arrow reaches the target
handleRelease(reachesTarget) ==
    /\ page.shown.gameState = "drawing"
    /\ ~(~page.shown.isHolding \/ page.shown.gameState # "drawing")
    /\ ReleaseBudget
    /\ page' = animateArrow(reachesTarget)
    /\ PageStep

\* the landing callback of an arrow that missed the target
landShort ==
    /\ page.misses > 0
    /\ page' = [page EXCEPT !.misses = @ - 1, !.state.gameState = "result"]
    /\ PageStep

\* executeBet up to its first await
executeBet(connected, funded) ==
    LET called == [page EXCEPT !.hits = @ - 1, !.calls = @ + 1]
    IN IF ~connected
          THEN called
          ELSE IF page.deployed /\ ~funded
                  THEN [called EXCEPT !.state.gameState = "idle"]
                  ELSE IF ~page.deployed
                          THEN [called EXCEPT !.demo = @ + 1]
                          ELSE [called EXCEPT !.switching = @ + 1]

\* the landing callback of an arrow that reached the target calls executeBet
landOnTarget(connected, funded) ==
    /\ page.hits > 0
    /\ page' = executeBet(connected, funded)
    /\ PageStep

\* the timeout of the demo mode shows a result without a transaction
demoResult ==
    /\ page.demo > 0
    /\ page' = [page EXCEPT !.demo = @ - 1, !.state.gameState = "result"]
    /\ PageStep

\* the catch block of executeBet
BetFailed(p) == [p EXCEPT !.state.txStatus = "idle", !.state.gameState = "idle"]

\* ensureCorrectChain settles; executeBet goes on to writeContractAsync(quickBet)
chainChecked(ok) ==
    /\ page.switching > 0
    /\ LET resumed == [page EXCEPT !.switching = @ - 1]
       IN page' = IF ok
                     THEN [resumed EXCEPT !.state.txStatus = "signing",
                                          !.signing = @ + 1,
                                          !.quickBets = @ + 1]
                     ELSE BetFailed(resumed)
    /\ PageStep

\* writeContractAsync settles: the wallet returns the hash or the player rejects
walletAnswered(ok) ==
    /\ page.signing > 0
    /\ LET resumed == [page EXCEPT !.signing = @ - 1]
       IN page' = IF ok
                     THEN [resumed EXCEPT !.state.txStatus = "confirming",
                                          !.confirming = @ + 1]
                     ELSE BetFailed(resumed)
    /\ PageStep

\* waitForTransactionReceipt settles: BetRevealed found, or reverted / refunded / no
\* event, or the wait throws
ReceiptKinds == {"revealed", "noResult", "thrown"}

receiptArrived(kind) ==
    /\ page.confirming > 0
    /\ LET resumed == [page EXCEPT !.confirming = @ - 1]
       IN page' = CASE kind = "revealed" ->
                         [resumed EXCEPT !.state.txStatus = "idle",
                                         !.state.gameState = "result"]
                    [] kind = "noResult" ->
                         [resumed EXCEPT !.state.txStatus = "idle",
                                         !.state.gameState = "idle"]
                    [] kind = "thrown" -> BetFailed(resumed)
    /\ PageStep

\* the play-again button, which exists while gameState is "result"
playAgain ==
    /\ page.shown.gameState = "result"
    /\ page' = [page EXCEPT !.state.gameState = "idle", !.state.txStatus = "idle"]
    /\ PageStep

PageInit ==
    /\ Deployed
    /\ draw = NoDraw
    /\ \E deployed \in BOOLEAN : page = PageLoaded(deployed)

PageNext ==
    \/ Render
    \/ handleStart
    \/ \E reachesTarget \in BOOLEAN : handleRelease(reachesTarget)
    \/ landShort
    \/ \E connected \in BOOLEAN, funded \in BOOLEAN : landOnTarget(connected, funded)
    \/ demoResult
    \/ \E ok \in BOOLEAN : chainChecked(ok)
    \/ \E ok \in BOOLEAN : walletAnswered(ok)
    \/ \E kind \in ReceiptKinds : receiptArrived(kind)
    \/ playAgain

PageSpec == PageInit /\ [][PageNext]_vars

\* ================================================================ claims
\* reference quantities, stated independently of the contract's code
WorstCase(stake) == (stake * 190) \div 100
Committed(a) == phase[a] = "Committed"

RECURSIVE SumOver(_, _)
SumOver(S, f) ==
    IF S = {} THEN 0
    ELSE LET x == CHOOSE y \in S : TRUE IN f[x] + SumOver(S \ {x}, f)

OpenLiability ==
    SumOver({a \in Callers : Committed(a)},
            [a \in Callers |-> WorstCase(pendingBets[a].amount)])

Succeeded == last'.err = "ok"
LedgerAndTreasuryUnchanged == UNCHANGED <<balance, reserveBalance, pendingBets>>

\* C1: after every operation reserveBalance is at most the contract balance.
C1_Solvency == reserveBalance <= balance

\* C2: every Committed bet's worst-case payout is covered by the contract balance.
C2_PayoutsFundable ==
    \A a \in Callers : Committed(a) => balance >= WorstCase(pendingBets[a].amount)

\* C3: reserveBalance is the sum of stake*190/100 over the unresolved bets, and the
\* subtractions in revealBet and refundExpiredBet never underflow.
C3_ReserveIsOpenLiability ==
    /\ reserveBalance = OpenLiability
    /\ last.op \in {"revealBet", "refundExpiredBet"} => last.err # "Panic"

C3_Witness ==
    /\ last.op = "revealBet" /\ last.err = "ok" /\ last.released = 9
    /\ \E a \in Callers : Committed(a) /\ pendingBets[a].amount = 7
    /\ reserveBalance = 13

\* C4: a commit whose stake-inclusive balance minus the reserved liability is below
\* stake*190/100 is rejected with InsufficientHouseBalance.
C4_ReserveCheckCountsLiability ==
    [][last'.op = "commitBet" =>
       \A a \in Callers, v \in StakeInputs, h \in HashInputs :
          (/\ ~paused /\ minBet <= v /\ v <= maxBet /\ ~Committed(a)
           /\ (balance + v) - reserveBalance < WorstCase(v)
           /\ commitBet(a, v, h))
          => last'.err = "InsufficientHouseBalance"]_vars

\* C5: no owner operation transfers more than balance - reserveBalance to the owner
\* or takes the balance below reserveBalance.
C5_ReservedFundsStay ==
    [][(/\ last'.op \in {"withdrawHouse", "emergencyWithdraw", "pause", "unpause",
                         "updateBetLimits"}
        /\ Succeeded)
       => (/\ last'.sent > 0 => last'.sent <= balance - reserveBalance
           /\ balance >= reserveBalance => balance' >= reserveBalance')]_vars

\* C6: withdrawHouse by the owner of more than balance - reserveBalance is rejected
\* and changes neither the treasury, nor a pending bet, nor a statistic.
C6_WithdrawBeyondAvailableRejected ==
    [][last'.op = "withdrawHouse" =>
       \A amt \in WithdrawInputs, ok \in BOOLEAN :
          (amt > balance - reserveBalance /\ withdrawHouse(Owner, amt, ok))
          => (~Succeeded /\ LedgerAndTreasuryUnchanged /\ UNCHANGED stats)]_vars

C6_Witness ==
    /\ last.op = "withdrawHouse" /\ last.err = "Cannot withdraw reserved funds"
    /\ reserveBalance > 0 /\ balance >= 5 /\ balance - reserveBalance < 5

\* C7 (as stated): a commitBet by a caller whose bet is Committed always fails with
\* PendingBetExists and changes nothing.
C7_SecondCommitPendingBetExists ==
    [][last'.op = "commitBet" =>
       \A a \in Callers, v \in StakeInputs, h \in HashInputs :
          (Committed(a) /\ commitBet(a, v, h))
          => (last'.err = "PendingBetExists" /\ LedgerAndTreasuryUnchanged)]_vars

\* C7 (amended): a commitBet by a caller whose bet is Committed always fails and
\* changes nothing; the failure is PendingBetExists when the engine is not paused and
\* the stake is within the limits, and the pause or stake-limit error otherwise.
C7_SecondCommitRejected ==
    [][last'.op = "commitBet" =>
       \A a \in Callers, v \in StakeInputs, h \in HashInputs :
          (Committed(a) /\ commitBet(a, v, h))
          => /\ ~Succeeded
             /\ LedgerAndTreasuryUnchanged
             /\ (~paused /\ minBet <= v /\ v <= maxBet) => last'.err = "PendingBetExists"
             /\ last'.err \in {"PendingBetExists", "EnforcedPause", "BetTooSmall",
                               "BetTooLarge"}]_vars

C7_Witness ==
    /\ last.op = "commitBet" /\ last.err = "PendingBetExists"
    /\ \E a \in Callers : Committed(a)

RevealOrRefundBy(a) ==
    \/ /\ last'.op = "revealBet"
       /\ \E s \in Secrets, bh \in BlockHashes, ok \in BOOLEAN : revealBet(a, s, bh, ok)
    \/ /\ last'.op = "refundExpiredBet"
       /\ \E ok \in BOOLEAN : refundExpiredBet(a, ok)

\* C8 (as stated): a bet is revealed or refunded at most once, and afterwards every
\* revealBet or refundExpiredBet of that caller fails with NoPendingBet.
C8_ResolveOnceNoPendingBet ==
    [][last'.op \in {"revealBet", "refundExpiredBet"} =>
       \A a \in Callers :
          /\ (Succeeded /\ RevealOrRefundBy(a)) => Committed(a)
          /\ (phase[a] \in {"Resolved", "Refunded"} /\ RevealOrRefundBy(a))
                => last'.err = "NoPendingBet"]_vars

\* C8 (amended): a bet is revealed or refunded at most once, and afterwards every
\* revealBet or refundExpiredBet of that caller fails: with NoPendingBet, except that
\* revealBet called while the engine is paused fails with the pause error.
C8_ResolveOnce ==
    [][last'.op \in {"revealBet", "refundExpiredBet"} =>
       \A a \in Callers :
          /\ (Succeeded /\ RevealOrRefundBy(a)) => (Committed(a) /\ ~Committed(a)')
          /\ (phase[a] \in {"Resolved", "Refunded"} /\ RevealOrRefundBy(a))
                => /\ ~Succeeded
                   /\ UNCHANGED contractState
                   /\ last'.err = IF paused /\ last'.op = "revealBet"
                                  THEN "EnforcedPause" ELSE "NoPendingBet"]_vars

C8_Witness ==
    /\ last.op = "refundExpiredBet" /\ last.err = "NoPendingBet"
    /\ \E a \in Callers : phase[a] = "Resolved"
    /\ \A a \in Callers : phase[a] \in {"Resolved", "Committed"}

\* C9: what a reveal or a refund subtracts from reserveBalance is what the commit of
\* that bet added to it.
C9_ReleaseEqualsReservation ==
    [][(last'.op \in {"revealBet", "refundExpiredBet"} /\ Succeeded) =>
       \A a \in Callers :
          RevealOrRefundBy(a)
          => (/\ reserveBalance - reserveBalance' = reservedFor[a]
              /\ last'.released = reservedFor[a]
              /\ reservedFor[a] > 0)]_vars

C9_Witness ==
    /\ last.op = "refundExpiredBet" /\ last.err = "ok" /\ last.released = 9
    /\ minBet # InitialMinBet

\* C10: a commit that meets the pause, stake, no-open-bet and available-balance
\* preconditions succeeds, records the entry, reserves stake*190/100 and adds the stake.
C10_CommitSucceeds ==
    [][last'.op = "commitBet" =>
       \A a \in Callers, v \in StakeInputs, h \in HashInputs :
          (/\ ~paused /\ minBet <= v /\ v <= maxBet /\ ~Committed(a)
           /\ balance - reserveBalance >= WorstCase(v)
           /\ commitBet(a, v, h))
          => (/\ Succeeded
              /\ pendingBets'[a] = [amount |-> v, commitBlock |-> blockNumber,
                                    commitHash |-> h, resolved |-> FALSE]
              /\ reserveBalance' = reserveBalance + WorstCase(v)
              /\ balance' = balance + v)]_vars

C10_Witness ==
    /\ last.op = "commitBet" /\ last.err = "ok"
    /\ \E a \in Callers :
          /\ Committed(a)
          /\ pendingBets[a].amount = 7
          /\ pendingBets[a].commitBlock = blockNumber
          /\ blockNumber > 1
    /\ reserveBalance = 13

\* C11 (as stated): revealBet on a Committed bet fails with RevealTooEarly at every
\* height <= commitHeight + 1 and with RevealTooLate at every height > commitHeight + 256,
\* succeeds only at heights in between, and a timing failure changes nothing.
C11_RevealWindowErrors ==
    [][last'.op = "revealBet" =>
       \A a \in Callers :
          Committed(a) =>
             \A s \in Secrets, bh \in BlockHashes, ok \in BOOLEAN :
                revealBet(a, s, bh, ok) =>
                   LET commitHeight == pendingBets[a].commitBlock IN
                   /\ blockNumber <= commitHeight + 1 => last'.err = "RevealTooEarly"
                   /\ blockNumber > commitHeight + 256 => last'.err = "RevealTooLate"
                   /\ Succeeded => (commitHeight + 1 < blockNumber /\ blockNumber <= commitHeight + 256)
                   /\ last'.err \in {"RevealTooEarly", "RevealTooLate"}
                         => (Committed(a)' /\ LedgerAndTreasuryUnchanged /\ UNCHANGED stats)]_vars

\* C11 (amended): while the engine is not paused, revealBet on a Committed bet fails with
\* RevealTooEarly at every height <= commitHeight + 1 and with RevealTooLate at every
\* height > commitHeight + 256; while it is paused the call fails with the pause error at
\* every height; it succeeds only at heights in between, and a failure changes nothing.
C11_RevealWindow ==
    [][last'.op = "revealBet" =>
       \A a \in Callers :
          Committed(a) =>
             \A s \in Secrets, bh \in BlockHashes, ok \in BOOLEAN :
                revealBet(a, s, bh, ok) =>
                   LET commitHeight == pendingBets[a].commitBlock IN
                   /\ paused => last'.err = "EnforcedPause"
                   /\ (~paused /\ blockNumber <= commitHeight + 1) => last'.err = "RevealTooEarly"
                   /\ (~paused /\ blockNumber > commitHeight + 256) => last'.err = "RevealTooLate"
                   /\ Succeeded => (commitHeight + 1 < blockNumber /\ blockNumber <= commitHeight + 256)
                   /\ last'.err \in {"RevealTooEarly", "RevealTooLate", "EnforcedPause"}
                         => (Committed(a)' /\ LedgerAndTreasuryUnchanged /\ UNCHANGED stats)]_vars

C11_Witness ==
    /\ last.op = "revealBet" /\ last.err = "RevealTooLate"
    /\ \E a \in Callers : Committed(a) /\ blockNumber = pendingBets[a].commitBlock + 257
    /\ \A a \in Callers : Committed(a) => blockNumber > pendingBets[a].commitBlock + 256

\* the digest H(s, c) of the claims: injective on (secret, caller) pairs
Digest(s, c) == <<s, c>>

\* C12 (as stated): revealBet by caller c succeeds only with a secret s such that
\* H(s, c) is the digest stored for c; any other secret fails with InvalidReveal and
\* changes nothing; a digest copied from caller d cannot be revealed with d's secret.
C12_WrongSecretInvalidReveal ==
    [][last'.op = "revealBet" =>
       \A c \in Callers :
          Committed(c) =>
             \A s \in Secrets, bh \in BlockHashes, ok \in BOOLEAN :
                revealBet(c, s, bh, ok) =>
                   /\ Succeeded => Digest(s, c) = pendingBets[c].commitHash
                   /\ Digest(s, c) # pendingBets[c].commitHash
                         => (last'.err = "InvalidReveal" /\ UNCHANGED contractState)
                   /\ \A d \in Callers \ {c} :
                         pendingBets[c].commitHash = Digest(s, d) => ~Succeeded]_vars

\* C12 (amended): revealBet by caller c succeeds only with a secret s such that H(s, c)
\* is the digest stored for c; any other secret fails and changes nothing, with
\* InvalidReveal when the engine is not paused and the height is inside the reveal
\* window; a digest copied from caller d cannot be revealed with d's secret.
C12_DigestBoundToCaller ==
    [][last'.op = "revealBet" =>
       \A c \in Callers :
          Committed(c) =>
             \A s \in Secrets, bh \in BlockHashes, ok \in BOOLEAN :
                revealBet(c, s, bh, ok) =>
                   LET commitHeight == pendingBets[c].commitBlock
                       inWindow == commitHeight + 1 < blockNumber /\ blockNumber <= commitHeight + 256
                   IN
                   /\ Succeeded => Digest(s, c) = pendingBets[c].commitHash
                   /\ Digest(s, c) # pendingBets[c].commitHash
                         => /\ ~Succeeded
                            /\ UNCHANGED contractState
                            /\ (~paused /\ inWindow) => last'.err = "InvalidReveal"
                            /\ last'.err \in {"InvalidReveal", "EnforcedPause",
                                              "RevealTooEarly", "RevealTooLate"}
                   /\ \A d \in Callers \ {c} :
                         pendingBets[c].commitHash = Digest(s, d) => ~Succeeded]_vars

C12_Witness ==
    /\ last.op = "revealBet" /\ last.err = "InvalidReveal"
    /\ Committed("alice") /\ ~Committed("owner")
    /\ pendingBets["alice"].commitHash = Digest(1, "owner")

\* C13: whenever a caller's bet is Committed and the height exceeds commitHeight + 256,
\* refundExpiredBet by that caller (who accepts the transfer) succeeds, marks the bet
\* resolved, lowers reserveBalance by stake*190/100 and sends the stake back.
C13_RefundAlwaysAvailable ==
    [][last'.op = "refundExpiredBet" =>
       \A a \in Callers :
          (Committed(a) /\ blockNumber > pendingBets[a].commitBlock + 256
             /\ refundExpiredBet(a, TRUE))
          => /\ Succeeded
             /\ pendingBets'[a].resolved
             /\ reserveBalance' = reserveBalance - WorstCase(pendingBets[a].amount)
             /\ last'.sent = pendingBets[a].amount
             /\ balance' = balance - pendingBets[a].amount]_vars

\* C14: refundExpiredBet fails with NoPendingBet when the caller has no bet or the bet
\* is already resolved, and with RevealTooEarly at every height <= commitHeight + 256;
\* in both cases the ledger, the balance and reserveBalance are unchanged.
C14_RefundRejections ==
    [][last'.op = "refundExpiredBet" =>
       \A a \in Callers, ok \in BOOLEAN :
          refundExpiredBet(a, ok) =>
             /\ ~Committed(a)
                   => (last'.err = "NoPendingBet" /\ LedgerAndTreasuryUnchanged)
             /\ (Committed(a) /\ blockNumber <= pendingBets[a].commitBlock + 256)
                   => (last'.err = "RevealTooEarly" /\ LedgerAndTreasuryUnchanged)]_vars

C14_Witness ==
    /\ last.op = "refundExpiredBet" /\ last.err = "RevealTooEarly"
    /\ \E a \in Callers : Committed(a) /\ blockNumber = pendingBets[a].commitBlock + 256
    /\ \A a \in Callers : Committed(a) => blockNumber = pendingBets[a].commitBlock + 256

\* C15 (as stated): while the engine is paused, every call of commitBet, revealBet,
\* quickBet and refundExpiredBet fails and changes nothing.
C15_PauseDisablesAllFour ==
    [][(paused /\ last'.op \in {"commitBet", "revealBet", "quickBet", "refundExpiredBet"})
          => (~Succeeded /\ last'.err # "refunded" /\ UNCHANGED contractState)]_vars

\* C15 (amended): while the engine is paused, every call of commitBet, revealBet and
\* quickBet fails with the pause error and changes nothing; refundExpiredBet is not
\* disabled: on an expired Committed bet it still succeeds when the balance covers the stake.
C15_PauseDisablesBetting ==
    [][paused =>
         /\ last'.op \in {"commitBet", "revealBet", "quickBet"}
               => (last'.err = "EnforcedPause" /\ UNCHANGED contractState)
         /\ last'.op = "refundExpiredBet"
               => \A a \in Callers :
                     (Committed(a) /\ blockNumber > pendingBets[a].commitBlock + 256
                        /\ balance >= pendingBets[a].amount /\ refundExpiredBet(a, TRUE))
                     => (Succeeded /\ ~Committed(a)')]_vars

C15_Witness ==
    /\ paused
    /\ last.op = "quickBet" /\ last.err = "EnforcedPause"
    /\ \E a \in Callers : Committed(a)

ReferenceResult(r) ==
    CASE r \in 0..14 -> 2
      [] r \in 15..49 -> 1
      [] r \in 50..99 -> 0

ReferencePayout(r, stake) ==
    CASE r \in 0..14 -> WorstCase(stake)
      [] r \in 15..49 -> stake \div 2
      [] r \in 50..99 -> 0

\* C17: for every r in 0..99 and every admissible stake, the revealBet ladder and the
\* quickBet ladder both give the reference (result, payout): Bullseye (2) with
\* stake*190/100 for r < 15, Ring (1) with stake/2 for 15 <= r < 50, Miss (0) with 0
\* otherwise; the two ladders agree.
C17_LaddersMatchReference ==
    draw.resolved =>
       /\ draw.reveal = <<ReferenceResult(draw.random), ReferencePayout(draw.random, draw.amount)>>
       /\ draw.quick = <<ReferenceResult(draw.random), ReferencePayout(draw.random, draw.amount)>>
       /\ draw.reveal = draw.quick

C17_Witness ==
    /\ draw.resolved
    /\ draw.random = 15 /\ draw.amount = 7
    /\ draw.reveal = <<1, 3>> /\ draw.quick = <<1, 3>>

\* C18: a quickBet within the limits on a house that cannot cover stake*190/100 returns
\* normally, sends exactly the stake back to the caller, and leaves the balance,
\* reserveBalance, the statistics and the ledger unchanged; no tier or payout is produced.
C18_QuickBetUnderfundedRefund ==
    [][last'.op = "quickBet" =>
       \A v \in StakeInputs :
          (~paused /\ minBet <= v /\ v <= maxBet /\ balance < WorstCase(v)) =>
             \A a \in Callers, e \in BlockHashes :
                quickBet(a, v, e, TRUE) =>
                   /\ last'.err = "refunded"
                   /\ last'.sent = v
                   /\ last'.result = -1 /\ last'.payout = 0
                   /\ LedgerAndTreasuryUnchanged
                   /\ UNCHANGED stats]_vars

C18_Witness ==
    /\ last.op = "quickBet" /\ last.err = "refunded" /\ last.sent = 7
    /\ 0 < balance /\ balance < WorstCase(7)
    /\ totalGamesPlayed > 0

\* commitBet of stake v by caller a is possible and ends with err
CommitEndsWith(a, v, err) ==
    ENABLED (\E h \in HashInputs : commitBet(a, v, h) /\ last'.err = err)

\* quickBet of stake v by caller a is possible and ends with err
QuickEndsWith(a, v, err) ==
    ENABLED (\E e \in BlockHashes : quickBet(a, v, e, TRUE) /\ last'.err = err)

playerStats == <<playerGamesPlayed, playerTotalWagered, playerTotalWon>>

\* caller c's three counters grow by one game, the stake and the payout of the call,
\* and nobody else's counters change
CountedOnceFor(c, stake) ==
    /\ playerGamesPlayed' = [playerGamesPlayed EXCEPT ![c] = @ + 1]
    /\ playerTotalWagered' = [playerTotalWagered EXCEPT ![c] = @ + stake]
    /\ playerTotalWon' = [playerTotalWon EXCEPT ![c] = @ + last'.payout]
    /\ last'.payout >= 0 /\ stake > 0

\* C20: each successful revealBet and each settled quickBet by caller c adds exactly 1
\* to playerGamesPlayed[c], the stake to playerTotalWagered[c] and the payout to
\* playerTotalWon[c]; every other step, including refundExpiredBet, failed calls and
\* other callers' bets, leaves c's counters unchanged.
C20_PlayerStatsOncePerBet ==
    [][IF last'.op = "revealBet" /\ Succeeded
       THEN \A c \in Callers :
               (\E s \in Secrets, bh \in BlockHashes, ok \in BOOLEAN : revealBet(c, s, bh, ok))
               => CountedOnceFor(c, pendingBets[c].amount)
       ELSE IF last'.op = "quickBet" /\ Succeeded
       THEN \A c \in Callers, v \in StakeInputs :
               (\E e \in BlockHashes, ok \in BOOLEAN : quickBet(c, v, e, ok))
               => CountedOnceFor(c, v)
       ELSE UNCHANGED playerStats]_vars

C20_Witness ==
    /\ last.op = "revealBet" /\ last.err = "ok" /\ last.payout > 0
    /\ playerGamesPlayed = [a \in Callers |-> IF a = "alice" THEN 1 ELSE 0]
    /\ playerTotalWagered = [a \in Callers |-> IF a = "alice" THEN 7 ELSE 0]
    /\ playerTotalWon = [a \in Callers |-> IF a = "alice" THEN last.payout ELSE 0]
    /\ Committed("owner")

\* C21: in every reachable state totalGamesPlayed is the sum over callers of
\* playerGamesPlayed, totalWagered the sum of playerTotalWagered and totalPayouts the
\* sum of playerTotalWon.
C21_GlobalStatsMirrorPlayers ==
    /\ totalGamesPlayed = SumOver(Callers, playerGamesPlayed)
    /\ totalWagered = SumOver(Callers, playerTotalWagered)
    /\ totalPayouts = SumOver(Callers, playerTotalWon)

C21_Witness ==
    /\ totalGamesPlayed = 2
    /\ \A a \in Callers : playerGamesPlayed[a] = 1
    /\ playerTotalWagered["owner"] # playerTotalWagered["alice"]
    /\ totalPayouts > 0
    /\ \E a \in Callers : playerTotalWon[a] = 0

\* 0 < minBet < maxBet <= 0.01 ether
LimitsWellFormed == 0 < minBet /\ minBet < maxBet /\ maxBet <= 100

\* C22: updateBetLimits(min, max) by the owner fails and changes nothing if min = 0,
\* min >= max or max exceeds the ceiling, and otherwise sets the limits; so
\* 0 < minBet < maxBet <= ceiling in every reachable state.
C22_BetLimitsValidated ==
    [][/\ LimitsWellFormed
       /\ LimitsWellFormed'
       /\ last'.op = "updateBetLimits" =>
             \A lim \in LimitInputs :
                updateBetLimits(Owner, lim[1], lim[2]) =>
                   IF lim[1] = 0 \/ lim[1] >= lim[2] \/ lim[2] > 100
                   THEN ~Succeeded /\ UNCHANGED contractState
                   ELSE Succeeded /\ minBet' = lim[1] /\ maxBet' = lim[2]
                        /\ LedgerAndTreasuryUnchanged]_vars

C22_Witness ==
    /\ last.op = "updateBetLimits" /\ last.err = "ok"
    /\ minBet = 6 /\ maxBet = 50
    /\ \E a \in Callers : Committed(a)

\* an administrative call by caller a
AdminCallBy(a) ==
    \/ /\ last'.op = "withdrawHouse"
       /\ \E amt \in WithdrawInputs, ok \in BOOLEAN : withdrawHouse(a, amt, ok)
    \/ /\ last'.op = "emergencyWithdraw"
       /\ \E ok \in BOOLEAN : emergencyWithdraw(a, ok)
    \/ /\ last'.op = "pause" /\ pause(a)
    \/ /\ last'.op = "unpause" /\ unpause(a)
    \/ /\ last'.op = "updateBetLimits"
       /\ \E lim \in LimitInputs : updateBetLimits(a, lim[1], lim[2])

\* C23: withdrawHouse, emergencyWithdraw, pause, unpause and updateBetLimits called by
\* anyone but the owner fail and leave the balance, reserveBalance, the paused flag,
\* the bet limits and every ledger entry unchanged.
C23_AdminOwnerOnly ==
    [][last'.op \in {"withdrawHouse", "emergencyWithdraw", "pause", "unpause",
                     "updateBetLimits"} =>
       \A a \in Callers \ {"owner"} :
          AdminCallBy(a) =>
             /\ ~Succeeded
             /\ last'.sent = 0
             /\ LedgerAndTreasuryUnchanged
             /\ UNCHANGED <<paused, minBet, maxBet>>]_vars

C23_Witness ==
    /\ last.op = "emergencyWithdraw" /\ last.err = "OwnableUnauthorizedAccount"
    /\ paused /\ balance > 0

C25_FundHouseNeverFails ==
    [][last'.op = "fundHouse" =>
       \A a \in Callers, v \in FundInputs :
          fundHouse(a, v) =>
             /\ Succeeded
             /\ balance' = balance + v
             /\ UNCHANGED <<reserveBalance, pendingBets, stats, config, paused>>]_vars

\* C25 (amended): fundHouse succeeds for every positive amount, adds exactly that
\* amount to the balance and leaves reserveBalance, the ledger, the statistics, the
\* limits and the paused flag unchanged; with amount 0 it fails and changes nothing.
C25_FundHousePositive ==
    [][last'.op = "fundHouse" =>
       \A a \in Callers, v \in FundInputs :
          fundHouse(a, v) =>
             /\ UNCHANGED <<reserveBalance, pendingBets, stats, config, paused>>
             /\ IF v > 0
                THEN Succeeded /\ balance' = balance + v
                ELSE last'.err = "Must send CELO" /\ balance' = balance]_vars

C25_Witness ==
    /\ last.op = "fundHouse" /\ last.err = "ok"
    /\ paused /\ balance = 23 /\ reserveBalance = 9

\* C26: when revealBet or refundExpiredBet makes its transfer, the bet is already
\* marked resolved, its liability released and (for reveal) the statistics updated; a
\* recipient that calls revealBet or refundExpiredBet during the transfer gets an
\* error, and the bet is paid once.
C26_BookkeepingBeforeTransfer ==
    [][last'.reentry # "none" =>
       /\ last'.reentry \in {"ReentrancyGuardReentrantCall", "EnforcedPause", "NoPendingBet"}
       /\ last'.seen.resolved
       /\ \A a \in Callers :
             /\ (/\ last'.op = "revealBet"
                 /\ \E s \in Secrets, bh \in BlockHashes, inner \in ReentrantCalls :
                       revealBetReentered(a, s, bh, inner))
                => /\ last'.seen.reserveBalance = reserveBalance - WorstCase(pendingBets[a].amount)
                   /\ last'.seen.games = playerGamesPlayed[a] + 1
                   /\ balance - balance' = last'.payout
                   /\ cycles'[a] = cycles[a] + 1
             /\ (/\ last'.op = "refundExpiredBet"
                 /\ \E inner \in ReentrantCalls : refundExpiredBetReentered(a, inner))
                => /\ last'.seen.reserveBalance = reserveBalance - WorstCase(pendingBets[a].amount)
                   /\ balance - balance' = pendingBets[a].amount
                   /\ cycles'[a] = cycles[a] + 1]_vars

C26_Witness ==
    /\ last.op = "revealBet" /\ last.err = "ok" /\ last.sent > 0
    /\ last.reentry = "ReentrancyGuardReentrantCall"
    /\ last.seen.resolved
    /\ \E a \in Callers : phase[a] = "Resolved" /\ cycles[a] = 1

\* C27: a transfer that fails in revealBet, refundExpiredBet or quickBet fails the whole
\* call and leaves the state as before it: the bet still Committed, reserveBalance not
\* released, no statistic changed; a recipient that rejects transfers is never recorded
\* as paid.
C27_FailedTransferReverts ==
    [][last'.op \in {"revealBet", "refundExpiredBet", "quickBet"} =>
       /\ last'.err \in {"Payout failed", "Refund failed"}
             => /\ LedgerAndTreasuryUnchanged
                /\ UNCHANGED <<stats, phase>>
       /\ \A a \in Callers :
             /\ (/\ last'.op = "revealBet"
                 /\ \E s \in Secrets, bh \in BlockHashes : revealBet(a, s, bh, FALSE))
                => /\ last'.sent = 0
                   /\ Succeeded => last'.payout = 0
             /\ (last'.op = "refundExpiredBet" /\ refundExpiredBet(a, FALSE))
                => /\ ~Succeeded
                   /\ UNCHANGED contractState
                   /\ Committed(a) => Committed(a)'
             /\ (/\ last'.op = "quickBet"
                 /\ \E v \in StakeInputs, e \in BlockHashes : quickBet(a, v, e, FALSE))
                => /\ last'.sent = 0
                   /\ Succeeded => last'.payout = 0]_vars

C27_Witness ==
    /\ last.op = "revealBet" /\ last.err = "Payout failed"
    /\ \E a \in Callers : Committed(a) /\ reserveBalance = WorstCase(pendingBets[a].amount)
    /\ totalGamesPlayed = 0
    /\ balance >= reserveBalance

C29_PayoutWithinReservation ==
    [][(last'.op = "revealBet" /\ Succeeded) =>
       \A a \in Callers :
          (\E s \in Secrets, bh \in BlockHashes, ok \in BOOLEAN : revealBet(a, s, bh, ok))
          => /\ \A r \in 0..99, stake \in StakeInputs \cup {pendingBets[a].amount} :
                   PayoutOf(r, stake) <= WorstCase(stake)
             /\ last'.payout <= WorstCase(pendingBets[a].amount)
             /\ balance - balance' = last'.payout
             /\ balance - balance' <= reserveBalance - reserveBalance']_vars

C29_Witness ==
    /\ last.op = "revealBet" /\ last.err = "ok"
    /\ last.result = 2 /\ last.payout = 13 /\ last.released = 13 /\ last.sent = 13

BetCallBy(c) ==
    \/ /\ last'.op = "commitBet"
       /\ \E v \in StakeInputs, h \in HashInputs : commitBet(c, v, h)
    \/ RevealOrRefundBy(c)

\* C31: commitBet, revealBet and refundExpiredBet called by c never change the ledger
\* entry or the player statistics of another caller d; c cannot have d's stake
\* refunded or d's bet marked resolved.
C31_OwnBetOnly ==
    [][last'.op \in {"commitBet", "revealBet", "refundExpiredBet"} =>
       \A c \in Callers :
          BetCallBy(c) =>
             \A d \in Callers \ {c} :
                /\ pendingBets'[d] = pendingBets[d]
                /\ playerGamesPlayed'[d] = playerGamesPlayed[d]
                /\ playerTotalWagered'[d] = playerTotalWagered[d]
                /\ playerTotalWon'[d] = playerTotalWon[d]
                /\ Committed(d) => Committed(d)']_vars

C31_Witness ==
    /\ last.op = "revealBet" /\ last.err = "ok"
    /\ phase["alice"] = "Resolved" /\ playerGamesPlayed["alice"] = 1
    /\ Committed("owner") /\ ~pendingBets["owner"].resolved
    /\ playerGamesPlayed["owner"] = 0

\* the timing check of revealBet and of refundExpiredBet for a bet committed at
\* commitBlock, at the current height
RevealTimingPasses(commitBlock) ==
    ~(blockNumber <= RevealOpensAfter(commitBlock)) /\ ~(blockNumber > RevealDeadline(commitBlock))

RefundTimingPasses(commitBlock) == ~(blockNumber <= RefundOpensAfter(commitBlock))

\* C32: for a Committed bet, at every height above commitHeight + 1 exactly one of the
\* timing checks of revealBet and refundExpiredBet passes; canReveal and canRefund of
\* getPendingBet are never both true and, for an unresolved bet, are true exactly where
\* the timing check of revealBet, respectively refundExpiredBet, passes.
C32_WindowsPartition ==
    \A a \in Callers :
       LET view == getPendingBet(a)
           commitHeight == pendingBets[a].commitBlock
       IN /\ ~(view.canReveal /\ view.canRefund)
          /\ Committed(a) =>
                /\ blockNumber > commitHeight + 1
                      => (RevealTimingPasses(commitHeight) <=> ~RefundTimingPasses(commitHeight))
                /\ blockNumber <= commitHeight + 1
                      => (~RevealTimingPasses(commitHeight) /\ ~RefundTimingPasses(commitHeight))
                /\ RevealTimingPasses(commitHeight)
                      <=> (commitHeight + 1 < blockNumber /\ blockNumber <= commitHeight + 256)
                /\ RefundTimingPasses(commitHeight) <=> blockNumber > commitHeight + 256
                /\ ~view.resolved
                /\ view.canReveal <=> RevealTimingPasses(commitHeight)
                /\ view.canRefund <=> RefundTimingPasses(commitHeight)

C32_Witness ==
    \E a \in Callers :
       /\ Committed(a)
       /\ blockNumber = pendingBets[a].commitBlock + 256
       /\ getPendingBet(a).canReveal /\ ~getPendingBet(a).canRefund
       /\ \E d \in Callers :
             /\ Committed(d)
             /\ blockNumber = pendingBets[d].commitBlock + 257
             /\ getPendingBet(d).canRefund /\ ~getPendingBet(d).canReveal

\* the stakes of the bets that are Committed
OpenStakes ==
    SumOver({a \in Callers : Committed(a)}, [a \in Callers |-> pendingBets[a].amount])

\* C33: in every reachable state the balance is what came in through fundHouse and
\* receive, plus totalWagered, plus the stakes of the unresolved bets, minus
\* totalPayouts, minus what withdrawHouse and emergencyWithdraw took out; refunds and
\* failed calls contribute nothing.
C33_ConservationOfFunds ==
    balance = deposited + totalWagered + OpenStakes - totalPayouts - withdrawn

C33_Witness ==
    /\ last.op = "refundExpiredBet" /\ last.err = "ok"
    /\ deposited = 9 /\ withdrawn = 0
    /\ totalWagered = 5 /\ totalPayouts = 0
    /\ OpenStakes = 0
    /\ balance = 14

\* C34: quickBet is accepted from a caller whose committed bet is unresolved, and in
\* every outcome (win, partial, miss, underfunded refund) it leaves reserveBalance and
\* every ledger entry unchanged.
C34_QuickBetIgnoresLedger ==
    [][last'.op = "quickBet" =>
       /\ UNCHANGED <<reserveBalance, pendingBets, phase>>
       /\ \A a \in Callers, v \in StakeInputs :
             (/\ Committed(a) /\ ~paused /\ minBet <= v /\ v <= maxBet
              /\ \E e \in BlockHashes : quickBet(a, v, e, TRUE))
             => last'.err \in {"ok", "refunded"}]_vars

C34_Witness ==
    /\ last.op = "quickBet" /\ last.err = "ok" /\ last.result = 1
    /\ Committed("alice") /\ playerGamesPlayed["alice"] = 1
    /\ playerGamesPlayed["owner"] = 0
    /\ reserveBalance = WorstCase(pendingBets["alice"].amount)

\* C35: in every reachable state, with available = max(balance - reserveBalance, 0) as
\* getHouseBalance returns it, withdrawHouse(amount) by the owner (who accepts the
\* transfer) succeeds for every amount <= available, amount 0 included, lowers the
\* balance by amount and leaves reserveBalance unchanged.
C35_WithdrawUpToAvailable ==
    [][last'.op = "withdrawHouse" =>
       /\ getHouseBalance.available
             = (IF balance - reserveBalance > 0 THEN balance - reserveBalance ELSE 0)
       /\ \A amount \in WithdrawInputs :
             (amount <= getHouseBalance.available /\ withdrawHouse("owner", amount, TRUE))
             => /\ Succeeded
                /\ balance' = balance - amount
                /\ reserveBalance' = reserveBalance]_vars

\* the timing checks of revealBet and refundExpiredBet, evaluated at a height h
RevealTimingPassesAt(commitBlock, h) ==
    ~(h <= RevealOpensAfter(commitBlock)) /\ ~(h > RevealDeadline(commitBlock))

RefundTimingPassesAt(commitBlock, h) == ~(h <= RefundOpensAfter(commitBlock))

\* the heights looked at around a reported bound
HeightsUpTo(h) == 0..h
HeightsAfter(h) == (h + 1)..(h + 3)

\* C36: the errors carry exact bounds. RevealTooEarly of revealBet reports (current height,
\* commitHeight + 2) and that is the smallest height at which the timing check of
\* revealBet passes; RevealTooLate reports (current height, commitHeight + 256) and that
\* is the largest height at which it passes; RevealTooEarly of refundExpiredBet reports
\* (current height, commitHeight + 257), the smallest height at which the timing check
\* of refundExpiredBet passes; InsufficientHouseBalance of commitBet reports (balance
\* before the stake, stake * 190 / 100).
C36_ErrorsCarryExactBounds ==
    [][/\ (last'.op = "revealBet" /\ last'.err \in {"RevealTooEarly", "RevealTooLate"}) =>
            \A a \in Callers :
               (\E s \in Secrets, bh \in BlockHashes, ok \in BOOLEAN : revealBet(a, s, bh, ok)) =>
                  LET commitHeight == pendingBets[a].commitBlock
                      reported == last'.detail[2]
                  IN /\ last'.detail[1] = blockNumber
                     /\ last'.err = "RevealTooEarly" =>
                           /\ reported = commitHeight + 2
                           /\ RevealTimingPassesAt(commitHeight, reported)
                           /\ \A h \in HeightsUpTo(reported - 1) :
                                 ~RevealTimingPassesAt(commitHeight, h)
                           /\ blockNumber < reported
                     /\ last'.err = "RevealTooLate" =>
                           /\ reported = commitHeight + 256
                           /\ RevealTimingPassesAt(commitHeight, reported)
                           /\ \A h \in HeightsAfter(reported) :
                                 ~RevealTimingPassesAt(commitHeight, h)
                           /\ blockNumber > reported
       /\ (last'.op = "refundExpiredBet" /\ last'.err = "RevealTooEarly") =>
            \A a \in Callers :
               (\E ok \in BOOLEAN : refundExpiredBet(a, ok)) =>
                  LET commitHeight == pendingBets[a].commitBlock
                      reported == last'.detail[2]
                  IN /\ last'.detail[1] = blockNumber
                     /\ reported = commitHeight + 257
                     /\ RefundTimingPassesAt(commitHeight, reported)
                     /\ \A h \in HeightsUpTo(reported - 1) :
                           ~RefundTimingPassesAt(commitHeight, h)
                     /\ blockNumber < reported
       /\ (last'.op = "commitBet" /\ last'.err = "InsufficientHouseBalance") =>
            \A a \in Callers, v \in StakeInputs, c \in HashInputs :
               commitBet(a, v, c) => last'.detail = <<balance, WorstCase(v)>>
      ]_vars

\* a reveal one block after the commit was turned away and told to come back one block later
C36_Witness ==
    /\ last.op = "revealBet"
    /\ last.err = "RevealTooEarly"
    /\ last.detail = <<blockNumber, blockNumber + 1>>
    /\ \E a \in Callers : Committed(a) /\ pendingBets[a].commitBlock = blockNumber - 1

\* a reveal after the window was told the deadline
C36_WitnessTooLate ==
    /\ last.op = "revealBet"
    /\ last.err = "RevealTooLate"
    /\ \E a \in Callers : Committed(a) /\ last.detail = <<blockNumber, pendingBets[a].commitBlock + 256>>

\* a refund inside the window was told the first height at which it opens
C36_WitnessRefund ==
    /\ last.op = "refundExpiredBet"
    /\ last.err = "RevealTooEarly"
    /\ \E a \in Callers : Committed(a) /\ last.detail = <<blockNumber, pendingBets[a].commitBlock + 257>>

\* a commit the house could not cover was told what is there and what is needed
C36_WitnessShort ==
    /\ last.op = "commitBet"
    /\ last.err = "InsufficientHouseBalance"
    /\ last.detail = <<9, 13>>

\* the quickBet transactions of the page that are with the wallet or awaiting a receipt
InFlight == page.signing + page.confirming

\* C37: a draw leads to at most one executeBet call and at most one quickBet transaction,
\* and the page never has two quickBet transactions in flight, however often the release
\* handlers fire before the component renders again.
C37_OneBetPerDraw ==
    /\ page.calls <= 1
    /\ page.quickBets <= 1
    /\ InFlight <= 1

\* two transactions of one draw are in flight
C37_TwoInFlight == InFlight = 2 /\ page.quickBets = 2

====
